---- MODULE Spec2Model ----
(***************************************************************************)
(* c4dart: translation of the declarations of a parsed C header into Dart  *)
(* FFI source text.  The model follows src/src/translator.rs (Translator,  *)
(* FuncDef, the type resolver), src/src/coder.rs (Coder, Chunk) and the    *)
(* writes of src/src/lib.rs.  Spec is a run of translate over one header,  *)
(* SpecCoder the building and rendering of a coder on its own.             *)
(*                                                                         *)
(* A panic (unwrap of None, a slice off a char boundary) ends the run in   *)
(* pc = "panicked"; the operators named *_panics say when one happens.     *)
(*                                                                         *)
(* Strings are TLA+ strings; Option<T> is a sequence of length 0 (None) or *)
(* 1 (Some).  The AST supplied by libclang is a value built from records:  *)
(* entities carry kind, name, comment and kind-specific attributes, types  *)
(* carry kind and, where libclang has one, pointee / declaration /         *)
(* result and argument types.                                              *)
(***************************************************************************)
EXTENDS Integers, Sequences, FiniteSets, TLC

VARIABLES root, options, pc, i, exported, typenames, calls, callbacks, units, output

vars == <<root, options, pc, i, exported, typenames, calls, callbacks, units, output>>

(***************************************************************************)
(* Bounds of the explored inputs.                                          *)
(***************************************************************************)
MaxDecls == 3
MaxArgs == 3
MaxUnderscores == 2

(***************************************************************************)
(* Option<T>                                                               *)
(***************************************************************************)
None == <<>>
Some(x) == <<x>>
IsSome(o) == Len(o) > 0
IsNone(o) == Len(o) = 0
Unwrap(o) == o[1]

(***************************************************************************)
(* String helpers (str::starts_with, str::ends_with, slicing, trim, lines) *)
(***************************************************************************)
StartsWith(s, p) == Len(p) <= Len(s) /\ SubSeq(s, 1, Len(p)) = p
EndsWith(s, p) == Len(p) <= Len(s) /\ SubSeq(s, Len(s) - Len(p) + 1, Len(s)) = p
From(s, n) == SubSeq(s, n + 1, Len(s))
CharAt(s, n) == SubSeq(s, n, n)

\* A str is UTF-8: it is sliced and measured in bytes and iterated in chars.
\* U3000 is IDEOGRAPHIC SPACE, a White_Space character three bytes long,
\* kept as one reserved character of the strings here; every other
\* character used is ASCII and one byte long.
U3000 == "@"
len_utf8(c) == IF c = U3000 THEN 3 ELSE 1

RECURSIVE ByteLen(_)
ByteLen(s) == IF Len(s) = 0 THEN 0 ELSE len_utf8(CharAt(s, 1)) + ByteLen(From(s, 1))

\* str::is_char_boundary and the slice &s[n..], defined on a boundary.
is_char_boundary(s, n) == \E k \in 0..Len(s) : ByteLen(SubSeq(s, 1, k)) = n
ByteFrom(s, n) == From(s, CHOOSE k \in 0..Len(s) : ByteLen(SubSeq(s, 1, k)) = n)

\* char::is_whitespace
IsWhitespace(c) == c \in {" ", "\n", "\t", "\r", U3000}

RECURSIVE TrimStart(_)
TrimStart(s) ==
    IF Len(s) > 0 /\ IsWhitespace(CharAt(s, 1)) THEN TrimStart(From(s, 1)) ELSE s

RECURSIVE TrimEnd(_)
TrimEnd(s) ==
    IF Len(s) > 0 /\ IsWhitespace(CharAt(s, Len(s)))
    THEN TrimEnd(SubSeq(s, 1, Len(s) - 1)) ELSE s

Trim(s) == TrimEnd(TrimStart(s))

\* str::find from a position: the first index at which p occurs, or 0.
Find(s, p, from) ==
    LET hits == {k \in from..(Len(s) - Len(p) + 1) : SubSeq(s, k, k + Len(p) - 1) = p}
    IN  IF hits = {} THEN 0 ELSE CHOOSE k \in hits : \A m \in hits : k <= m

Contains(s, p) == Find(s, p, 1) > 0

\* str::lines: lines end at "\n" or "\r\n"; the ending is not part of the
\* line and a final empty line is not produced.
RECURSIVE Lines(_)
Lines(s) ==
    IF Len(s) = 0 THEN <<>>
    ELSE LET n == Find(s, "\n", 1)
             line == SubSeq(s, 1, n - 1)
         IN  IF n = 0 THEN <<s>>
             ELSE <<IF EndsWith(line, "\r") THEN SubSeq(line, 1, Len(line) - 1) ELSE line>>
                  \o Lines(From(s, n))

RECURSIVE Join(_, _)
Join(ss, sep) ==
    IF Len(ss) = 0 THEN ""
    ELSE IF Len(ss) = 1 THEN ss[1]
    ELSE ss[1] \o sep \o Join(Tail(ss), sep)

RECURSIVE LeadingWhitespace(_)
LeadingWhitespace(s) ==
    IF Len(s) > 0 /\ IsWhitespace(CharAt(s, 1))
    THEN 1 + LeadingWhitespace(From(s, 1)) ELSE 0

SeqMin(ns, dflt) ==
    IF Len(ns) = 0 THEN dflt
    ELSE CHOOSE m \in {ns[k] : k \in 1..Len(ns)} : \A k \in 1..Len(ns) : m <= ns[k]

(***************************************************************************)
(* coder.rs                                                                *)
(***************************************************************************)
\* unroll_comment, lines 91-97: the text inside the comment markers.
strip_markers(src) ==
    IF StartsWith(src, "//") THEN From(src, 2)
    ELSE IF StartsWith(src, "/*") /\ EndsWith(src, "*/") /\ ByteLen(src) > 3
         THEN SubSeq(src, 3, Len(src) - 2)
    ELSE src

\* unroll_comment, lines 89-99
comment_text(src0) == Trim(strip_markers(Trim(src0)))

\* unroll_comment, lines 102-104: a count of chars.
initial_spaces(ls) ==
    SeqMin([k \in 1..(Len(ls) - 1) |-> LeadingWhitespace(ls[k + 1])], 0)

\* unroll_comment, line 107: &line[initial_spaces..] takes initial_spaces as
\* a count of bytes and panics when that is not a char boundary of the line.
slice_panics(ls, n) == \E k \in 2..Len(ls) : ~is_char_boundary(ls[k], n)

unroll_panics(src) == Contains(src, "\n") /\ slice_panics(Lines(src), initial_spaces(Lines(src)))

unroll_comment_panics(src0) == unroll_panics(comment_text(src0))

\* unroll_comment, lines 106-110
unroll_lines(ls, n) ==
    Join([k \in 1..Len(ls) |-> IF k > 1 THEN ByteFrom(ls[k], n) ELSE ls[k]], "\n")

unroll_text(src) ==
    IF Contains(src, "\n") THEN unroll_lines(Lines(src), initial_spaces(Lines(src)))
    ELSE src

unroll_comment(src0) == unroll_text(comment_text(src0))

Line(src) == [t |-> "Line", src |-> src]
Block(src, chunks) == [t |-> "Block", src |-> src, units |-> chunks]
Comment(src) == [t |-> "Comment", src |-> src]

coder_line(u, src) == Append(u, Line(src))
coder_block(u, src, body) == Append(u, Block(src, body))
coder_comment(u, src) == Append(u, Comment(unroll_comment(src)))

\* "{:indent$}" applied to "": indent spaces.
RECURSIVE Chunk_format(_, _)
RECURSIVE Coder_format(_, _)
RECURSIVE Spaces(_)
Spaces(n) == IF n = 0 THEN "" ELSE " " \o Spaces(n - 1)

\* Chunk::format, the Comment arm after the opening marker: the first line
\* closes the marker's line, every later line is written behind the
\* indentation and one space; a comment without lines writes nothing.
RECURSIVE comment_lines(_, _)
comment_lines(lines, indent) ==
    IF Len(lines) = 0 THEN ""
    ELSE indent \o " " \o Head(lines) \o "\n" \o comment_lines(Tail(lines), indent)

Chunk_format_open_close(chunk, l) ==
    LET indent == Spaces(l * 4)
    IN  CASE chunk.t = "Line" -> indent \o chunk.src \o "\n"
          [] chunk.t = "Block" ->
                indent \o chunk.src \o " {\n"
                \o Coder_format(chunk.units, l + 1)
                \o indent \o "}\n"
          [] chunk.t = "Comment" ->
                LET lines == Lines(chunk.src)
                IN  indent \o "/*"
                    \o (IF Len(lines) > 0
                        THEN Head(lines) \o "\n" \o comment_lines(Tail(lines), indent)
                        ELSE "")
                    \o indent \o " */\n"

\* Chunk::format and Coder::format: the text written to the formatter.
Chunk_format(chunk, l) ==
    LET indent == Spaces(l * 4)
    IN  CASE chunk.t = "Line" -> indent \o chunk.src \o "\n"
          [] chunk.t = "Block" ->
                IF Len(chunk.units) = 0
                THEN indent \o chunk.src \o " {}\n"
                ELSE indent \o chunk.src \o " {\n"
                     \o Coder_format(chunk.units, l + 1)
                     \o indent \o "}\n"
          [] chunk.t = "Comment" ->
                LET lines == Lines(chunk.src)
                IN  indent \o "/*"
                    \o (IF Len(lines) > 0
                        THEN Head(lines) \o "\n" \o comment_lines(Tail(lines), indent)
                        ELSE "")
                    \o indent \o " */\n"

Coder_format(chunks, l) ==
    IF Len(chunks) = 0 THEN ""
    ELSE Chunk_format(Head(chunks), l) \o Coder_format(Tail(chunks), l)

(***************************************************************************)
(* The AST provider (libclang, through the clang crate).  A Type is a      *)
(* record with a kind; Pointer carries its pointee, Record / Enum /        *)
(* Typedef carry their declaration, FunctionPrototype carries the result   *)
(* and argument types.  An Entity is a record with kind, name and comment  *)
(* (both Option<String>) plus the attributes of its kind.                  *)
(***************************************************************************)
PrimT(k) == [kind |-> k]
PointerT(t) == [kind |-> "Pointer", pointee |-> t]
RecordT(d) == [kind |-> "Record", decl |-> d]
EnumT(d) == [kind |-> "Enum", decl |-> d]
TypedefT(d) == [kind |-> "Typedef", decl |-> d]
FunctionT(res, args) == [kind |-> "FunctionPrototype", res |-> res, args |-> args]

FunctionDecl(name, cmt, res, args) ==
    [kind |-> "FunctionDecl", name |-> name, comment |-> cmt, res |-> res, args |-> args]
ParmDecl(name, type) == [kind |-> "ParmDecl", name |-> name, type |-> Some(type)]
FieldDecl(name, cmt, type) ==
    [kind |-> "FieldDecl", name |-> name, comment |-> cmt, type |-> type]
StructDecl(name, cmt, children) ==
    [kind |-> "StructDecl", name |-> name, comment |-> cmt, children |-> children]
EnumConstantDecl(name, value) ==
    [kind |-> "EnumConstantDecl", name |-> Some(name), value |-> value]
EnumDecl(name, cmt, children) ==
    [kind |-> "EnumDecl", name |-> name, comment |-> cmt, children |-> children]
TypedefDecl(name, cmt, underlying) ==
    [kind |-> "TypedefDecl", name |-> Some(name), comment |-> cmt, underlying |-> underlying]

get_kind(x) == x.kind
get_name(entity) == entity.name
get_comment(entity) == entity.comment

\* Type::get_pointee_type: only a Pointer type itself has a pointee.
get_pointee_type(t) == IF t.kind = "Pointer" THEN Some(t.pointee) ELSE None

\* Type::get_declaration
get_declaration(t) ==
    IF t.kind \in {"Record", "Enum", "Typedef"} THEN Some(t.decl) ELSE None

\* Type::get_canonical_type: typedefs are stripped at every level.
RECURSIVE get_canonical_type(_)
get_canonical_type(t) ==
    CASE t.kind = "Typedef" -> get_canonical_type(t.decl.underlying)
      [] t.kind = "Pointer" -> PointerT(get_canonical_type(t.pointee))
      [] t.kind = "FunctionPrototype" ->
            FunctionT(get_canonical_type(t.res),
                      [k \in 1..Len(t.args) |-> get_canonical_type(t.args[k])])
      [] OTHER -> t

\* Type::get_result_type / get_argument_types: function types only.
get_result_type(t) == IF t.kind = "FunctionPrototype" THEN Some(t.res) ELSE None
get_argument_types(t) == IF t.kind = "FunctionPrototype" THEN Some(t.args) ELSE None

\* Type::get_fields of a record type.
get_fields(t) == IF t.kind = "Record" THEN Some(t.decl.children) ELSE None

(***************************************************************************)
(* translator.rs: the primitive tables                                     *)
(***************************************************************************)
cffi_type(type_kind) ==
    CASE type_kind = "Void" -> Some("Void")
      [] type_kind = "Bool" -> Some("Uint8")
      [] type_kind = "SChar" -> Some("Int8")
      [] type_kind = "CharS" -> Some("Int8")
      [] type_kind = "UChar" -> Some("Uint8")
      [] type_kind = "Short" -> Some("Int16")
      [] type_kind = "UShort" -> Some("Uint16")
      [] type_kind = "Int" -> Some("Int32")
      [] type_kind = "UInt" -> Some("Uint32")
      [] type_kind = "Long" -> Some("Int64")
      [] type_kind = "ULong" -> Some("Uint64")
      [] type_kind = "Float" -> Some("Float")
      [] type_kind = "Double" -> Some("Double")
      [] OTHER -> None

dart_type_float_name(type_kind) ==
    CASE type_kind = "Void" -> Some("void")
      [] type_kind \in {"Bool", "SChar", "CharS", "UChar", "Short", "UShort",
                        "Int", "UInt", "Long", "ULong"} -> Some("int")
      [] type_kind = "Float" -> Some("float")
      [] type_kind = "Double" -> Some("double")
      [] OTHER -> None

dart_type(type_kind) ==
    CASE type_kind = "Void" -> Some("void")
      [] type_kind \in {"Bool", "SChar", "CharS", "UChar", "Short", "UShort",
                        "Int", "UInt", "Long", "ULong"} -> Some("int")
      [] type_kind \in {"Float", "Double"} -> Some("double")
      [] OTHER -> None

type_annotation(type_) ==
    LET t == cffi_type(get_kind(get_canonical_type(type_)))
    IN  IF IsSome(t) THEN "@" \o Unwrap(t) \o "()" ELSE ""

native_type(type_) ==
    LET t == dart_type(get_kind(get_canonical_type(type_)))
    IN  IF IsSome(t) THEN Unwrap(t) ELSE ""

(***************************************************************************)
(* translator.rs: the type resolver and FuncDef                            *)
(***************************************************************************)
\* HashMap::get on typenames, a function from source names to host names.
typenames_get(tn, name) == IF name \in DOMAIN tn THEN Some(tn[name]) ELSE None

RECURSIVE translate_type(_, _, _)
RECURSIVE translate_types(_, _, _)
RECURSIVE FuncDef_from_type(_, _)

translate_type(tn, type_, ffi) ==
    LET canonical_type == get_canonical_type(type_)
        kind == get_kind(canonical_type)
        prim == IF ffi THEN cffi_type(kind) ELSE dart_type(kind)
    IN  IF IsSome(prim) THEN Unwrap(prim)
        ELSE CASE kind = "Pointer" ->
                    LET p == get_pointee_type(type_)
                        pointee == IF IsSome(p) THEN Unwrap(p)
                                   ELSE Unwrap(get_pointee_type(canonical_type))
                    IN  "Pointer<" \o translate_type(tn, pointee, TRUE) \o ">"
               [] kind = "Record" ->
                    LET decl == Unwrap(get_declaration(type_))
                        name == Unwrap(get_name(decl))
                        found == typenames_get(tn, name)
                    IN  IF IsSome(found) THEN Unwrap(found) ELSE name
               [] kind \in {"FunctionPrototype", "FunctionNoPrototype"} ->
                    "NativeFunction<" \o FuncDef_from_type(tn, canonical_type).cffi \o ">"
               [] OTHER -> "<unsupported_type_kind:" \o kind \o ">"

translate_types(tn, types, ffi) ==
    Join([k \in 1..Len(types) |-> translate_type(tn, types[k], ffi)], ", ")

FuncDef_from_type(tn, type_) ==
    LET res == get_result_type(type_)
        args == get_argument_types(type_)
        cffi_res == IF IsSome(res) THEN translate_type(tn, Unwrap(res), TRUE) ELSE "Void"
        dart_res == IF IsSome(res) THEN translate_type(tn, Unwrap(res), FALSE) ELSE "void"
        cffi_args == IF IsSome(args) THEN translate_types(tn, Unwrap(args), TRUE) ELSE ""
        dart_args == IF IsSome(args) THEN translate_types(tn, Unwrap(args), FALSE) ELSE ""
    IN  [name |-> None, cmt |-> None,
         cffi |-> cffi_res \o " Function(" \o cffi_args \o ")",
         dart |-> dart_res \o " Function(" \o dart_args \o ")"]

translate_args(tn, args, ffi) ==
    Join([k \in 1..Len(args) |->
            LET type_ == translate_type(tn, Unwrap(args[k].type), ffi)
            IN  IF IsSome(get_name(args[k]))
                THEN type_ \o " " \o Unwrap(get_name(args[k]))
                ELSE type_], ", ")

FuncDef_from_entity(tn, entity) ==
    LET res == entity.res
        args == entity.args
        cffi_res == IF IsSome(res) THEN translate_type(tn, Unwrap(res), TRUE) ELSE "Void"
        dart_res == IF IsSome(res) THEN translate_type(tn, Unwrap(res), FALSE) ELSE "void"
        cffi_args == IF IsSome(args) THEN translate_args(tn, Unwrap(args), TRUE) ELSE ""
        dart_args == IF IsSome(args) THEN translate_args(tn, Unwrap(args), FALSE) ELSE ""
    IN  [name |-> get_name(entity), cmt |-> get_comment(entity),
         cffi |-> cffi_res \o " Function(" \o cffi_args \o ")",
         dart |-> dart_res \o " Function(" \o dart_args \o ")"]

\* while src.starts_with('_') { src = &src[1..]; }
RECURSIVE TrimUnderscores(_)
TrimUnderscores(s) == IF StartsWith(s, "_") THEN TrimUnderscores(From(s, 1)) ELSE s

without_prefix_one_underscore(src, pfx) ==
    IF StartsWith(src, pfx)
    THEN LET rest == From(src, Len(pfx))
         IN  IF StartsWith(rest, "_") THEN From(rest, 1) ELSE rest
    ELSE src

without_prefix(src, pfx) ==
    IF StartsWith(src, pfx) THEN TrimUnderscores(From(src, Len(pfx))) ELSE src

(***************************************************************************)
(* Name policy.  Options.names_match is a regular expression; the model    *)
(* covers the literal patterns (no metacharacters): the pattern matches a  *)
(* name iff it occurs in it, and Regex::replace rewrites the leftmost      *)
(* occurrence with the template, where "$0" stands for the matched text.   *)
(* The empty pattern matches every name at its start, like the default     *)
(* ".*" with "$0" it leaves every name unchanged.                          *)
(***************************************************************************)
Regex_is_match(re, text) == Contains(text, re)

Regex_replace(re, text, rep) ==
    LET at == Find(text, re, 1)
    IN  IF at = 0 THEN text
        ELSE SubSeq(text, 1, at - 1)
             \o (IF rep = "$0" THEN re ELSE rep)
             \o From(text, at + Len(re) - 1)

match_name_any(opts, name) == TRUE

match_name(opts, name) == Regex_is_match(opts.names_match, name)

make_name(opts, name) == Regex_replace(opts.names_match, name, opts.names_replace)

(***************************************************************************)
(* translator.rs: declarations.  Each operator returns the chunks the      *)
(* method appends to the coder.                                            *)
(***************************************************************************)
opt_comment(entity) ==
    IF IsSome(get_comment(entity)) THEN coder_comment(<<>>, Unwrap(get_comment(entity)))
    ELSE <<>>

\* The panics of the translate_* methods: unwrap of a None attribute and
\* the slice in unroll_comment.
comment_panics(entity) ==
    IsSome(get_comment(entity)) /\ unroll_comment_panics(Unwrap(get_comment(entity)))

translate_enum_panics(entity) == comment_panics(entity)

\* translate_field, lines 315-316 and 323-325
translate_field_panics(entity) ==
    /\ get_kind(entity) = "FieldDecl"
    /\ \/ IsNone(get_name(entity))
       \/ IsNone(entity.type)
       \/ comment_panics(entity)

struct_body_panics(fields) == \E k \in 1..Len(fields) : translate_field_panics(fields[k])

translate_struct_panics(entity) ==
    comment_panics(entity) \/ struct_body_panics(entity.children)

translate_typedef_panics(entity) ==
    LET type_ == get_canonical_type(entity.underlying)
    IN  /\ get_kind(type_) = "Record"
        /\ comment_panics(entity) \/ struct_body_panics(Unwrap(get_fields(type_)))

RECURSIVE enum_body(_, _)
enum_body(name, children) ==
    IF Len(children) = 0 THEN <<>>
    ELSE LET entity == Head(children)
             rest == enum_body(name, Tail(children))
         IN  IF get_kind(entity) = "EnumConstantDecl"
             THEN <<Line("static const " \o without_prefix(Unwrap(get_name(entity)), name)
                         \o " = " \o ToString(entity.value) \o ";")>> \o rest
             ELSE rest

translate_enum(name, xname, entity) ==
    coder_block(opt_comment(entity), "class " \o xname, enum_body(name, entity.children))

translate_field(entity) ==
    IF get_kind(entity) = "FieldDecl"
    THEN opt_comment(entity)
         \o <<Line(type_annotation(Unwrap(entity.type)) \o " "
                   \o native_type(Unwrap(entity.type)) \o " "
                   \o Unwrap(get_name(entity)) \o ";")>>
    ELSE <<>>

RECURSIVE struct_body(_)
struct_body(fields) ==
    IF Len(fields) = 0 THEN <<>>
    ELSE translate_field(Head(fields)) \o struct_body(Tail(fields))

translate_struct(name, xname, entity) ==
    coder_block(opt_comment(entity), "class " \o xname \o " extends Struct",
                struct_body(entity.children))

\* The result pairs the bool the method returns with the chunks it appends.
translate_typedef(name, xname, entity) ==
    LET type_ == get_canonical_type(entity.underlying)
    IN  IF get_kind(type_) = "Record"
        THEN [ok |-> TRUE,
              chunks |-> coder_block(opt_comment(entity),
                                     "class " \o xname \o " extends Struct",
                                     struct_body(Unwrap(get_fields(type_))))]
        ELSE [ok |-> FALSE, chunks |-> <<>>]

(***************************************************************************)
(* parse_type and parse_function work on the translator's fields; st is    *)
(* the record of the fields they read and write.                           *)
(***************************************************************************)
map_insert(m, k, v) == [x \in DOMAIN m \cup {k} |-> IF x = k THEN v ELSE m[x]]

\* parse_type, lines 243-264: the declaration of a non-pointer type.
parse_declared_no_dedup(opts, st, entity) ==
    IF IsNone(get_name(entity)) THEN st
    ELSE LET name == Unwrap(get_name(entity))
             xname == make_name(opts, name)
             kind == get_kind(entity)
             td == IF kind = "TypedefDecl" THEN translate_typedef(name, xname, entity)
                   ELSE [ok |-> FALSE, chunks |-> <<>>]
             emitted == [st EXCEPT !.exported = @ \cup {name},
                                   !.typenames = map_insert(@, name, xname)]
             panics == CASE kind = "EnumDecl" -> translate_enum_panics(entity)
                         [] kind = "StructDecl" -> translate_struct_panics(entity)
                         [] kind = "TypedefDecl" -> translate_typedef_panics(entity)
                         [] OTHER -> FALSE
         IN  IF panics THEN [st EXCEPT !.panicked = TRUE]
             ELSE
             CASE kind = "EnumDecl" ->
                    [emitted EXCEPT !.units = @ \o translate_enum(name, xname, entity)]
               [] kind = "StructDecl" ->
                    [emitted EXCEPT !.units = @ \o translate_struct(name, xname, entity)]
               [] kind = "TypedefDecl" ->
                    IF td.ok THEN [emitted EXCEPT !.units = @ \o td.chunks] ELSE st
               [] OTHER -> st

parse_declared(opts, st, entity) ==
    IF IsNone(get_name(entity)) THEN st
    ELSE LET name == Unwrap(get_name(entity))
             xname == make_name(opts, name)
             kind == get_kind(entity)
             td == IF kind = "TypedefDecl" THEN translate_typedef(name, xname, entity)
                   ELSE [ok |-> FALSE, chunks |-> <<>>]
             emitted == [st EXCEPT !.exported = @ \cup {name},
                                   !.typenames = map_insert(@, name, xname)]
             panics == CASE kind = "EnumDecl" -> translate_enum_panics(entity)
                         [] kind = "StructDecl" -> translate_struct_panics(entity)
                         [] kind = "TypedefDecl" -> translate_typedef_panics(entity)
                         [] OTHER -> FALSE
         IN  IF name \in st.exported THEN st
             ELSE IF panics THEN [st EXCEPT !.panicked = TRUE]
             ELSE CASE kind = "EnumDecl" ->
                         [emitted EXCEPT !.units = @ \o translate_enum(name, xname, entity)]
                    [] kind = "StructDecl" ->
                         [emitted EXCEPT !.units = @ \o translate_struct(name, xname, entity)]
                    [] kind = "TypedefDecl" ->
                         IF td.ok THEN [emitted EXCEPT !.units = @ \o td.chunks] ELSE st
                    [] OTHER -> st

RECURSIVE parse_type(_, _, _)
parse_type(opts, st, type_) ==
    IF st.panicked THEN st
    ELSE IF get_kind(type_) = "Pointer"
    THEN parse_type(opts, st, Unwrap(get_pointee_type(type_)))
    ELSE IF IsSome(get_declaration(type_))
         THEN parse_declared(opts, st, Unwrap(get_declaration(type_)))
         ELSE st

\* parse_function, lines 210-214: is the argument a pointer to a function?
is_callback_arg(arg) ==
    LET canonical_type == get_canonical_type(Unwrap(arg.type))
    IN  /\ get_kind(canonical_type) = "Pointer"
        /\ get_kind(Unwrap(get_pointee_type(canonical_type)))
               \in {"FunctionPrototype", "FunctionNoPrototype"}

\* parse_function, lines 215-219: the argument's name, or cb{num}; the
\* result carries the counter after the argument.
callback_arg_name_count_all(arg, num) ==
    IF IsSome(get_name(arg)) THEN [name |-> Unwrap(get_name(arg)), num |-> num + 1]
    ELSE [name |-> "cb" \o ToString(num), num |-> num + 1]

callback_arg_name(arg, num) ==
    IF IsSome(get_name(arg)) THEN [name |-> Unwrap(get_name(arg)), num |-> num]
    ELSE [name |-> "cb" \o ToString(num), num |-> num + 1]

\* parse_function, lines 204-232: the loop over the arguments.
RECURSIVE parse_args(_, _, _, _, _)
parse_args(opts, st, xname, args, num) ==
    IF Len(args) = 0 \/ st.panicked THEN st
    ELSE LET arg == Head(args)
             type_ == Unwrap(arg.type)
             cb == callback_arg_name(arg, num)
             pointee == Unwrap(get_pointee_type(get_canonical_type(type_)))
         IN  IF is_callback_arg(arg)
             THEN parse_args(opts,
                      [st EXCEPT !.callbacks =
                          Append(@, <<xname \o "_" \o cb.name,
                                      FuncDef_from_type(st.typenames, pointee)>>)],
                      xname, Tail(args), cb.num)
             ELSE parse_args(opts, parse_type(opts, st, type_), xname, Tail(args), num)

\* parse_function: the unwraps of lines 195-196 panic on None; a panic
\* below them ends the method as well.
parse_function_skips_incomplete(opts, st, name, entity) ==
    IF IsNone(entity.res) \/ IsNone(entity.args) THEN st
    ELSE LET res == Unwrap(entity.res)
             args == Unwrap(entity.args)
             xname == make_name(opts, name)
             st1 == parse_type(opts, st, res)
             st2 == parse_args(opts, st1, xname, args, 0)
         IN  IF st2.panicked THEN st2
             ELSE [st2 EXCEPT !.calls =
                      Append(@, <<xname, FuncDef_from_entity(st2.typenames, entity)>>)]

parse_function(opts, st, name, entity) ==
    IF IsNone(entity.res) \/ IsNone(entity.args) THEN [st EXCEPT !.panicked = TRUE]
    ELSE LET res == Unwrap(entity.res)
             args == Unwrap(entity.args)
             xname == make_name(opts, name)
             st1 == parse_type(opts, st, res)
             st2 == parse_args(opts, st1, xname, args, 0)
         IN  IF st2.panicked THEN st2
             ELSE [st2 EXCEPT !.calls =
                      Append(@, <<xname, FuncDef_from_entity(st2.typenames, entity)>>)]

\* export_once: the bool it returns and the set it leaves.
export_once(exp, name) ==
    IF name \in exp THEN [ok |-> FALSE, exported |-> exp]
    ELSE [ok |-> TRUE, exported |-> exp \cup {name}]

(***************************************************************************)
(* translate, lines 125-189: the library class                             *)
(***************************************************************************)
func_comment(func) ==
    IF IsSome(func.cmt) THEN coder_comment(<<>>, Unwrap(func.cmt)) ELSE <<>>

\* The comments of the fields pass through unroll_comment, which may panic.
library_class_panics(cs, cbs) ==
    \E func \in {cs[k][2] : k \in 1..Len(cs)} \cup {cbs[k][2] : k \in 1..Len(cbs)} :
        IsSome(func.cmt) /\ unroll_comment_panics(Unwrap(func.cmt))

RECURSIVE callback_fields(_)
callback_fields(cbs) ==
    IF Len(cbs) = 0 THEN <<>>
    ELSE func_comment(Head(cbs)[2])
         \o <<Line("final Pointer<NativeFunction<" \o Head(cbs)[2].cffi \o ">> _"
                   \o Head(cbs)[1] \o ";")>>
         \o callback_fields(Tail(cbs))

RECURSIVE call_fields(_)
call_fields(cs) ==
    IF Len(cs) = 0 THEN <<>>
    ELSE func_comment(Head(cs)[2])
         \o <<Line("final " \o Head(cs)[2].dart \o " _" \o Head(cs)[1] \o ";")>>
         \o call_fields(Tail(cs))

constructor_params(cbs) == [k \in 1..Len(cbs) |-> Line("  , this._" \o cbs[k][1])]

call_inits(cs) ==
    [k \in 1..Len(cs) |->
        Line((IF k = 1 THEN ":" ELSE ",") \o " _" \o cs[k][1]
             \o " = dylib.lookup<NativeFunction<" \o cs[k][2].cffi \o ">>('"
             \o Unwrap(cs[k][2].name) \o "').asFunction()")]

class_body_calls_first(class, cs, cbs) ==
    coder_comment(<<>>, "Callbacks")
    \o call_fields(cs)
    \o coder_comment(<<>>, "Functions")
    \o callback_fields(cbs)
    \o coder_comment(<<>>, "Constructor")
    \o <<Line(class \o "("), Line("    DynamicLibrary dylib")>>
    \o constructor_params(cbs)
    \o <<Line(")")>>
    \o coder_comment(<<>>, "Init functions")
    \o call_inits(cs)
    \o <<Line("{}")>>

class_body(class, cs, cbs) ==
    coder_comment(<<>>, "Callbacks")
    \o callback_fields(cbs)
    \o coder_comment(<<>>, "Functions")
    \o call_fields(cs)
    \o coder_comment(<<>>, "Constructor")
    \o <<Line(class \o "("), Line("    DynamicLibrary dylib")>>
    \o constructor_params(cbs)
    \o <<Line(")")>>
    \o coder_comment(<<>>, "Init functions")
    \o call_inits(cs)
    \o <<Line("{}")>>

library_class(class, cs, cbs) ==
    coder_block(coder_comment(<<>>, "Library class"),
                "class " \o class, class_body(class, cs, cbs))

(***************************************************************************)
(* The headers explored.  Declarations of a small library and functions    *)
(* over them; a header is a sequence of top-level declarations in which    *)
(* every type a function names is declared before the function.            *)
(***************************************************************************)
OptDefault == [class_name |-> "Lib", names_match |-> "", names_replace |-> "$0"]
OptPrefix == [class_name |-> "Lib", names_match |-> "lib_", names_replace |-> ""]
OptionsPool == {OptDefault, OptPrefix}

IntT == PrimT("Int")
VoidT == PrimT("Void")

sFoo ==
    StructDecl(Some("lib_Foo"), Some("/* A foo. */"),
               <<FieldDecl(Some("a"), None, Some(IntT)),
                 FieldDecl(Some("b"), Some("// ratio"), Some(PointerT(PrimT("Float"))))>>)
sBar == StructDecl(Some("Bar"), None, <<FieldDecl(Some("x"), None, Some(PrimT("Double")))>>)
eMode ==
    EnumDecl(Some("lib_Mode"), None,
             <<EnumConstantDecl("lib_Mode_A", 0), EnumConstantDecl("lib_Mode__B", 1),
               EnumConstantDecl("OTHER", -1)>>)
sAnon == StructDecl(None, None, <<FieldDecl(Some("v"), None, Some(PrimT("UInt")))>>)
tBaz == TypedefDecl("lib_Baz_t", None, RecordT(sAnon))
tCb == TypedefDecl("lib_cb_t", None, PointerT(FunctionT(VoidT, <<IntT>>)))
eAnon == EnumDecl(None, None, <<EnumConstantDecl("X", 1)>>)
\* typedef struct lib_Foo lib_Foo;
tFoo == TypedefDecl("lib_Foo", None, RecordT(sFoo))

TypeDecls == {sFoo, sBar, eMode, tBaz, tCb, eAnon, tFoo}

fOpen == FunctionDecl(Some("lib_open"), Some("/* Open.\n   Returns a foo. */"),
                      Some(PointerT(RecordT(sFoo))), Some(<<>>))
fUse == FunctionDecl(Some("lib_use"), None, Some(IntT),
                     Some(<<ParmDecl(Some("foo"), PointerT(RecordT(sFoo))),
                            ParmDecl(Some("copy"), RecordT(sFoo))>>))
fMode == FunctionDecl(Some("lib_mode"), None, Some(EnumT(eMode)), Some(<<>>))
fBaz == FunctionDecl(Some("lib_baz"), None, Some(TypedefT(tBaz)),
                     Some(<<ParmDecl(None, PointerT(TypedefT(tBaz)))>>))
fOn == FunctionDecl(Some("lib_on"), None, Some(VoidT),
                    Some(<<ParmDecl(None, PointerT(FunctionT(VoidT, <<PointerT(RecordT(sBar))>>))),
                           ParmDecl(Some("h"), TypedefT(tCb))>>))
fGetBar == FunctionDecl(Some("get_bar"), None, Some(RecordT(sBar)),
                        Some(<<ParmDecl(None, PointerT(RecordT(sFoo)))>>))
fHelper == FunctionDecl(Some("helper"), None, Some(IntT), Some(<<ParmDecl(Some("n"), IntT)>>))
fClose == FunctionDecl(Some("lib_close"), None, Some(VoidT),
                       Some(<<ParmDecl(Some("foo"), PointerT(TypedefT(tFoo)))>>))

Functions == {fOpen, fUse, fMode, fBaz, fOn, fGetBar, fClose, fHelper}

\* The declarations a type names, at any depth.
RECURSIVE TypeNamed(_)
TypeNamed(t) ==
    CASE t.kind = "Pointer" -> TypeNamed(t.pointee)
      [] t.kind = "FunctionPrototype" ->
            TypeNamed(t.res) \cup UNION {TypeNamed(t.args[k]) : k \in 1..Len(t.args)}
      [] t.kind \in {"Record", "Enum", "Typedef"} -> {t.decl}
      [] OTHER -> {}

FunctionNamed(f) ==
    (IF IsSome(f.res) THEN TypeNamed(Unwrap(f.res)) ELSE {})
    \cup (IF IsSome(f.args)
          THEN UNION {TypeNamed(Unwrap(Unwrap(f.args)[k].type)) : k \in 1..Len(Unwrap(f.args))}
          ELSE {})

SeqsUpTo(S, n) == UNION {[1..k -> S] : k \in 0..n}

WellFormedHeader(h) ==
    /\ \A j, k \in 1..Len(h) : (j # k /\ h[j] = h[k]) => h[j].kind = "FunctionDecl"
    /\ \A k \in 1..Len(h) :
          h[k].kind = "FunctionDecl" =>
              \A d \in FunctionNamed(h[k]) : \E j \in 1..(k - 1) : h[j] = d

LibraryHeaders ==
    {h \in SeqsUpTo(TypeDecls \cup Functions, MaxDecls) : Len(h) > 0 /\ WellFormedHeader(h)}

\* Headers of one function with every argument list over a pool of arguments.
aCb == ParmDecl(None, PointerT(FunctionT(VoidT, <<IntT>>)))
aNamedCb == ParmDecl(Some("on_ev"), PointerT(FunctionT(IntT, <<PointerT(RecordT(sFoo))>>)))
aInt == ParmDecl(Some("n"), IntT)
aFoo == ParmDecl(Some("foo"), PointerT(RecordT(sFoo)))
aTdCb == ParmDecl(None, TypedefT(tCb))
aCb0 == ParmDecl(Some("cb0"), PointerT(FunctionT(VoidT, <<>>)))
ArgPool == {aCb, aNamedCb, aInt, aFoo, aTdCb, aCb0}

fLast == FunctionDecl(Some("lib_last"), None, Some(VoidT), Some(<<aCb>>))

CallbackHeaders ==
    {<<sFoo, tCb, FunctionDecl(Some("lib_reg"), None, Some(VoidT), Some(args)), fLast>> :
        args \in SeqsUpTo(ArgPool, MaxArgs)}

\* Headers over the primitive kinds: the table's and some it does not hold.
TableKinds == {"Bool", "SChar", "CharS", "UChar", "Short", "UShort", "Int", "UInt",
               "Long", "ULong", "Float", "Double"}
ScalarKinds == TableKinds \cup {"LongLong", "ULongLong", "LongDouble"}

PrimHeaders ==
    {<<StructDecl(Some("lib_P"), None,
                  <<FieldDecl(Some("a"), None, Some(PrimT(k1))),
                    FieldDecl(Some("b"), None, Some(PrimT(k2)))>>),
       FunctionDecl(Some("lib_p"), None, Some(PrimT(k1)),
                    Some(<<ParmDecl(Some("x"), PrimT(k2)),
                           ParmDecl(Some("p"), PointerT(RecordT(
                               StructDecl(Some("lib_P"), None,
                                          <<FieldDecl(Some("a"), None, Some(PrimT(k1))),
                                            FieldDecl(Some("b"), None, Some(PrimT(k2)))>>))))>>))>> :
        k1 \in ScalarKinds, k2 \in ScalarKinds}

\* Headers of one enum with one constant.
RECURSIVE Underscores(_)
Underscores(n) == IF n = 0 THEN "" ELSE "_" \o Underscores(n - 1)

EnumHeaders ==
    {<<EnumDecl(Some(en), None, <<EnumConstantDecl(pre \o Underscores(n) \o rest, 0)>>)>> :
        en \in {"Color", "COLOR"}, pre \in {"Color", "COLOR", "Col"},
        n \in 0..MaxUnderscores, rest \in {"RED", "R_D"}}

\* Headers of one declaration with a comment of several lines: a first
\* line and one or two continuation lines, each indented by up to MaxIndent
\* copies of one whitespace character, some of them blank; written as a
\* block comment, as a line comment or bare, with either line ending.
MaxIndent == 2

RECURSIVE Repeat(_, _)
Repeat(ch, n) == IF n = 0 THEN "" ELSE ch \o Repeat(ch, n - 1)

IndentChars == {" ", "\t", U3000}
ContLines ==
    {[ch |-> ch, n |-> n, body |-> body] :
        ch \in IndentChars, n \in 1..MaxIndent, body \in {"b", ""}}
    \cup {[ch |-> " ", n |-> 0, body |-> body] : body \in {"b", ""}}

CommentParts ==
    {[open |-> w, eol |-> eol, conts |-> conts] :
        w \in {"/*", "//", ""}, eol \in {"\n", "\r\n"},
        conts \in {cs \in [1..1 -> ContLines] \cup [1..2 -> ContLines] :
                      cs[Len(cs)].body # ""}}

CommentSource(p) ==
    p.open \o (IF p.open = "" THEN "" ELSE " ") \o "a"
    \o Join([k \in 1..Len(p.conts) |->
                p.eol \o Repeat(p.conts[k].ch, p.conts[k].n) \o p.conts[k].body], "")
    \o (IF p.open = "/*" THEN " */" ELSE "")

CommentEnum(p) ==
    EnumDecl(Some("lib_K"), Some(CommentSource(p)), <<EnumConstantDecl("lib_K_A", 0)>>)
CommentFunction(p) ==
    FunctionDecl(Some("lib_f"), Some(CommentSource(p)), Some(VoidT), Some(<< >>))

CommentHeaders ==
    {<<CommentEnum(p)>> : p \in CommentParts}
    \cup {<<CommentFunction(p)>> : p \in {q \in CommentParts : q.open = "/*" /\ q.eol = "\n"}}

\* Headers with a declaration the AST provider describes incompletely: a
\* function without result type or without argument list, a struct (named,
\* or anonymous behind a typedef) with a field without name (an unnamed
\* bit-field) or without type, taken by a function; each with and without
\* the lib_ prefix, after and before well-formed declarations.
fNoResult(pfx) == FunctionDecl(Some(pfx \o "nores"), None, None, Some(<<aInt>>))
fNoArguments(pfx) == FunctionDecl(Some(pfx \o "noargs"), None, Some(IntT), None)

UnnamedField == FieldDecl(None, None, Some(IntT))
UntypedField == FieldDecl(Some("x"), None, None)
UnnamedUnion == [kind |-> "UnionDecl", name |-> None, comment |-> None, children |-> << >>]

sPart(pfx, member) ==
    StructDecl(Some(pfx \o "S"), None, <<FieldDecl(Some("a"), None, Some(IntT)), member>>)
tPart(pfx, member) ==
    TypedefDecl(pfx \o "T", None, RecordT(StructDecl(None, None, <<member>>)))
fTake(pfx, type_) ==
    FunctionDecl(Some(pfx \o "take"), None, Some(VoidT),
                 Some(<<ParmDecl(Some("s"), PointerT(type_))>>))

IncompleteDecls ==
    UNION {{<<fNoResult(pfx)>>, <<fNoArguments(pfx)>>} : pfx \in {"lib_", ""}}
    \cup UNION {{<<sPart(pfx, member), fTake(pfx, RecordT(sPart(pfx, member)))>>,
                 <<tPart(pfx, member), fTake(pfx, TypedefT(tPart(pfx, member)))>>} :
                pfx \in {"lib_", ""}, member \in {UnnamedField, UntypedField, UnnamedUnion}}

AbortHeaders ==
    {before \o decls \o after :
        before \in {<< >>, <<fHelper>>}, decls \in IncompleteDecls,
        after \in {<< >>, <<eMode>>, <<fHelper>>}}

Headers ==
    LibraryHeaders \cup CallbackHeaders \cup PrimHeaders \cup EnumHeaders
    \cup CommentHeaders \cup AbortHeaders

(***************************************************************************)
(* The run of Translator::translate over the header's top-level children   *)
(***************************************************************************)
translator == [exported |-> exported, typenames |-> typenames,
               calls |-> calls, callbacks |-> callbacks, units |-> units,
               panicked |-> FALSE]

Store(st) ==
    /\ ~st.panicked
    /\ exported' = st.exported
    /\ typenames' = st.typenames
    /\ calls' = st.calls
    /\ callbacks' = st.callbacks
    /\ units' = st.units

\* A panic unwinds out of translate: the translator is dropped and the
\* caller's writes are never reached.
Panic ==
    /\ pc' = "panicked"
    /\ UNCHANGED <<root, options, i, exported, typenames, calls, callbacks, units, output>>

InLoop(p) == pc = p /\ i <= Len(root)
Named(entity) == IsSome(get_name(entity))
InScope(entity) == Named(entity) /\ match_name(options, Unwrap(get_name(entity)))

\* Translator::new
Init ==
    /\ root \in Headers
    /\ options \in OptionsPool
    /\ pc = "start"
    /\ i = 1
    /\ exported = {}
    /\ typenames = << >>
    /\ calls = << >>
    /\ callbacks = << >>
    /\ units = << >>
    /\ output = ""

\* translate, lines 97-98
Begin ==
    /\ pc = "start"
    /\ units' = coder_line(coder_line(units, "import 'dart:ffi';"), "")
    /\ pc' = "pass1"
    /\ UNCHANGED <<root, options, i, exported, typenames, calls, callbacks, output>>

\* translate, lines 100-109: one child of the first loop
Pass1Function ==
    /\ InLoop("pass1")
    /\ InScope(root[i])
    /\ get_kind(root[i]) = "FunctionDecl"
    /\ Store(parse_function(options, translator, Unwrap(get_name(root[i])), root[i]))
    /\ i' = i + 1
    /\ UNCHANGED <<root, options, pc, output>>

Pass1Panic ==
    /\ InLoop("pass1")
    /\ InScope(root[i])
    /\ get_kind(root[i]) = "FunctionDecl"
    /\ parse_function(options, translator, Unwrap(get_name(root[i])), root[i]).panicked
    /\ Panic

Pass1Other ==
    /\ InLoop("pass1")
    /\ InScope(root[i])
    /\ get_kind(root[i]) # "FunctionDecl"
    /\ i' = i + 1
    /\ UNCHANGED <<root, options, pc, exported, typenames, calls, callbacks, units, output>>

Pass1Skip ==
    /\ InLoop("pass1")
    /\ ~InScope(root[i])
    /\ i' = i + 1
    /\ UNCHANGED <<root, options, pc, exported, typenames, calls, callbacks, units, output>>

Pass1End ==
    /\ pc = "pass1"
    /\ i > Len(root)
    /\ pc' = "pass2"
    /\ i' = 1
    /\ UNCHANGED <<root, options, exported, typenames, calls, callbacks, units, output>>

\* translate, lines 111-123: one child of the second loop
Pass2Enum ==
    /\ InLoop("pass2")
    /\ InScope(root[i])
    /\ LET name == Unwrap(get_name(root[i]))
           xname == make_name(options, name)
           once == export_once(exported, name)
       IN  /\ once.ok
           /\ get_kind(root[i]) = "EnumDecl"
           /\ ~translate_enum_panics(root[i])
           /\ exported' = once.exported
           /\ units' = units \o translate_enum(name, xname, root[i])
    /\ i' = i + 1
    /\ UNCHANGED <<root, options, pc, typenames, calls, callbacks, output>>

Pass2Panic ==
    /\ InLoop("pass2")
    /\ InScope(root[i])
    /\ export_once(exported, Unwrap(get_name(root[i]))).ok
    /\ get_kind(root[i]) = "EnumDecl"
    /\ translate_enum_panics(root[i]) = TRUE
    /\ Panic

Pass2Other ==
    /\ InLoop("pass2")
    /\ InScope(root[i])
    /\ LET once == export_once(exported, Unwrap(get_name(root[i])))
       IN  /\ ~(once.ok /\ get_kind(root[i]) = "EnumDecl")
           /\ exported' = once.exported
    /\ i' = i + 1
    /\ UNCHANGED <<root, options, pc, typenames, calls, callbacks, units, output>>

Pass2Skip ==
    /\ InLoop("pass2")
    /\ ~InScope(root[i])
    /\ i' = i + 1
    /\ UNCHANGED <<root, options, pc, exported, typenames, calls, callbacks, units, output>>

\* translate, lines 125-189
LibraryClass ==
    /\ pc = "pass2"
    /\ i > Len(root)
    /\ ~library_class_panics(calls, callbacks)
    /\ units' = units \o library_class(options.class_name, calls, callbacks)
    /\ pc' = "done"
    /\ UNCHANGED <<root, options, i, exported, typenames, calls, callbacks, output>>

ClassPanic ==
    /\ pc = "pass2"
    /\ i > Len(root)
    /\ library_class_panics(calls, callbacks) = TRUE
    /\ Panic

\* lib.rs, lines 48-53: the banner and the rendered coder, each by writeln!
CARGO_PKG_NAME == "c4dart"
CARGO_PKG_VERSION == "0.1.0"

banner ==
    "/* This file was generated using " \o CARGO_PKG_NAME \o " v" \o CARGO_PKG_VERSION
    \o " tool and should not be modified manually. */"

Write ==
    /\ pc = "done"
    /\ output' = output \o banner \o "\n" \o Coder_format(units, 0) \o "\n"
    /\ pc' = "written"
    /\ UNCHANGED <<root, options, i, exported, typenames, calls, callbacks, units>>

Next ==
    \/ Begin
    \/ Pass1Function
    \/ Pass1Other
    \/ Pass1Skip
    \/ Pass1End
    \/ Pass2Enum
    \/ Pass2Other
    \/ Pass2Skip
    \/ LibraryClass
    \/ Write
    \/ Pass1Panic
    \/ Pass2Panic
    \/ ClassPanic

Spec == Init /\ [][Next]_vars

TypeOK ==
    /\ pc \in {"start", "pass1", "pass2", "done", "written", "panicked"}
    /\ i \in 1..(Len(root) + 1)
    /\ Len(calls) <= Len(root)

(***************************************************************************)
(* The Coder on its own: a coder is built through line, comment and block  *)
(* (whose closure builds the body on a fresh coder through the same three  *)
(* methods) and then rendered through Display.                             *)
(***************************************************************************)
MaxChunks == 4
MaxDepth == 3

BlockHeaders == {"class A", "if (x)"}
LineTexts == {"x;"}
CommentTexts == {"/* a\n   b */"}

RECURSIVE Size(_)
Size(chunks) ==
    IF Len(chunks) = 0 THEN 0
    ELSE 1 + (IF Head(chunks).t = "Block" THEN Size(Head(chunks).units) ELSE 0)
           + Size(Tail(chunks))

\* The coders a closure can build with at most n chunks and blocks nested
\* at most d deep.
RECURSIVE Coders(_, _)
Coders(n, d) ==
    IF n = 0 THEN {<< >>}
    ELSE LET smaller == Coders(n - 1, d)
         IN  smaller
             \cup {coder_line(u, src) : u \in smaller, src \in LineTexts}
             \cup {coder_comment(u, src) : u \in smaller, src \in CommentTexts}
             \cup (IF d = 0 THEN {}
                   ELSE UNION {{coder_block(u, src, body) :
                                   src \in BlockHeaders,
                                   body \in Coders(n - 1 - Size(u), d - 1)} :
                               u \in smaller})

\* Coder::default
InitCoder ==
    /\ root = << >>
    /\ options = OptDefault
    /\ pc = "coder"
    /\ i = 1
    /\ exported = {}
    /\ typenames = << >>
    /\ calls = << >>
    /\ callbacks = << >>
    /\ units = << >>
    /\ output = ""

CoderLine ==
    /\ pc = "coder"
    /\ Size(units) < MaxChunks
    /\ \E src \in LineTexts : units' = coder_line(units, src)
    /\ UNCHANGED <<root, options, pc, i, exported, typenames, calls, callbacks, output>>

CoderComment ==
    /\ pc = "coder"
    /\ Size(units) < MaxChunks
    /\ \E src \in CommentTexts : units' = coder_comment(units, src)
    /\ UNCHANGED <<root, options, pc, i, exported, typenames, calls, callbacks, output>>

CoderBlock ==
    /\ pc = "coder"
    /\ Size(units) < MaxChunks
    /\ \E src \in BlockHeaders, body \in Coders(MaxChunks - 1 - Size(units), MaxDepth - 1) :
          units' = coder_block(units, src, body)
    /\ UNCHANGED <<root, options, pc, i, exported, typenames, calls, callbacks, output>>

\* Display for Coder: format at level 0
CoderFmt ==
    /\ pc = "coder"
    /\ output' = Coder_format(units, 0)
    /\ pc' = "formatted"
    /\ UNCHANGED <<root, options, i, exported, typenames, calls, callbacks, units>>

NextCoder ==
    \/ CoderLine
    \/ CoderComment
    \/ CoderBlock
    \/ CoderFmt

SpecCoder == InitCoder /\ [][NextCoder]_vars

(***************************************************************************)
(* Vocabulary of the properties                                            *)
(***************************************************************************)
Last(q) == q[Len(q)]

\* The declarations whose translation appends a block, and the block.
TranslationPanics(d) ==
    CASE get_kind(d) = "EnumDecl" -> translate_enum_panics(d)
      [] get_kind(d) = "StructDecl" -> translate_struct_panics(d)
      [] get_kind(d) = "TypedefDecl" -> translate_typedef_panics(d)
      [] OTHER -> FALSE

Translatable(d) ==
    /\ Named(d)
    /\ \/ get_kind(d) \in {"EnumDecl", "StructDecl"}
       \/ get_kind(d) = "TypedefDecl" /\ get_kind(get_canonical_type(d.underlying)) = "Record"
    /\ ~TranslationPanics(d)

DefiningBlock(d) ==
    LET name == Unwrap(get_name(d))
        xname == make_name(options, name)
    IN  CASE get_kind(d) = "EnumDecl" -> Last(translate_enum(name, xname, d))
          [] get_kind(d) = "StructDecl" -> Last(translate_struct(name, xname, d))
          [] get_kind(d) = "TypedefDecl" -> Last(translate_typedef(name, xname, d).chunks)

Count(q, c) == Cardinality({k \in 1..Len(q) : q[k] = c})

IsPrefix(q, r) == Len(q) <= Len(r) /\ SubSeq(r, 1, Len(q)) = q

\* The declaration behind a type once its pointers are removed.
RECURSIVE Pointee(_)
Pointee(t) == IF t.kind = "Pointer" THEN Pointee(t.pointee) ELSE t

\* The declarations a function reaches through its result type and through
\* the arguments that are not pointers to functions.
Referenced(f) ==
    LET args == Unwrap(f.args)
        types == {Unwrap(f.res)}
                 \cup {Unwrap(args[k].type) : k \in {m \in 1..Len(args) : ~is_callback_arg(args[m])}}
    IN  {d \in UNION {TypeNamed(Pointee(t)) : t \in types} : Translatable(d)}

FunctionInScope(e) ==
    /\ Named(e)
    /\ Regex_is_match(options.names_match, Unwrap(get_name(e)))
    /\ get_kind(e) = "FunctionDecl"

\* The step parses the function at i to its end.
FunctionParsed == InLoop("pass1") /\ FunctionInScope(root[i]) /\ pc' = "pass1"

\* Every declaration of the header: the top-level ones and those the
\* functions name.
AllDecls ==
    {root[k] : k \in 1..Len(root)}
    \cup UNION {FunctionNamed(root[k]) : k \in {m \in 1..Len(root) : root[m].kind = "FunctionDecl"}}

EnumOf(name, constant, value) ==
    EnumDecl(Some(name), None, <<EnumConstantDecl(constant, value)>>)

MemberBlock(xname, member, value) ==
    Block("class " \o xname, <<Line("static const " \o member \o " = " \o ToString(value) \o ";")>>)

Emitted(e) ==
    /\ pc = "done"
    /\ \E k \in 1..Len(root) : root[k] = e
    /\ Regex_is_match(options.names_match, Unwrap(get_name(e)))

C2_AsStated ==
    \A c \in {"COLOR_RED", "COLOR__RED"} :
        Emitted(EnumOf("Color", c, 0)) =>
            Count(units, MemberBlock(make_name(options, "Color"), "RED", 0)) = 1

(***************************************************************************)
(* C2 amended: the prefix is compared exactly, letter case included.  A    *)
(* constant named with the enum's own name, then any number of            *)
(* underscores, then a rest is emitted as the rest (Color_RED and          *)
(* Color__RED in Color are RED); a constant that does not start with the   *)
(* enum's name (COLOR_RED in Color) is emitted under its full name.        *)
(***************************************************************************)
C2_PrefixStripped ==
    \A en \in {"Color", "COLOR"}, rest \in {"RED", "R_D"}, n \in 0..MaxUnderscores :
        /\ Emitted(EnumOf(en, en \o Underscores(n) \o rest, 0)) =>
              Count(units, MemberBlock(make_name(options, en), rest, 0)) = 1
        /\ \A pre \in {"Color", "COLOR", "Col"} \ {en} :
              Emitted(EnumOf(en, pre \o Underscores(n) \o rest, 0)) =>
                 Count(units, MemberBlock(make_name(options, en),
                                          pre \o Underscores(n) \o rest, 0)) = 1

C2_Witness ==
    /\ Emitted(EnumOf("Color", "Color__RED", 0))
    /\ Count(units, MemberBlock("Color", "RED", 0)) = 1

(***************************************************************************)
(* C3 as stated: at the end of a run every top-level enum, struct and      *)
(* typedef of a struct whose name matches the pattern has its defining     *)
(* block in the output, whether or not a function references it.           *)
(***************************************************************************)
C3_AllTranslatedAtEnd ==
    pc = "done" =>
        \A k \in 1..Len(root) :
            (Translatable(root[k]) /\ Regex_is_match(options.names_match, Unwrap(get_name(root[k]))))
                => Count(units, DefiningBlock(root[k])) >= 1

(***************************************************************************)
(* C4 as stated: whenever the resolver resolves a record type for the      *)
(* signature of a function, or of a callback taken from a function's       *)
(* arguments, the record's source name is a key of typenames at that       *)
(* moment, also for records named only inside a function-pointer argument. *)
(***************************************************************************)
\* The names translate_type looks up in typenames while it resolves a type.
RECURSIVE RecordLookups(_)
RecordLookups(type_) ==
    LET canonical_type == get_canonical_type(type_)
        kind == get_kind(canonical_type)
    IN  CASE kind = "Pointer" ->
                RecordLookups(IF IsSome(get_pointee_type(type_))
                              THEN Unwrap(get_pointee_type(type_))
                              ELSE Unwrap(get_pointee_type(canonical_type)))
          [] kind = "Record" -> {Unwrap(get_name(Unwrap(get_declaration(type_))))}
          [] kind = "FunctionPrototype" ->
                RecordLookups(canonical_type.res)
                \cup UNION {RecordLookups(canonical_type.args[k]) :
                               k \in 1..Len(canonical_type.args)}
          [] OTHER -> {}

\* typenames when the loop of parse_function reaches its k-th argument.
TypenamesAtArg(f, k) ==
    parse_args(options, parse_type(options, translator, Unwrap(f.res)),
               make_name(options, Unwrap(get_name(f))),
               SubSeq(Unwrap(f.args), 1, k - 1), 0).typenames

C4_RecordLookupSucceeds ==
    [][ FunctionParsed =>
           LET f == root[i]
               args == Unwrap(f.args)
           IN  /\ \A k \in 1..Len(args) :
                     is_callback_arg(args[k]) =>
                        RecordLookups(Unwrap(get_pointee_type(
                            get_canonical_type(Unwrap(args[k].type)))))
                        \subseteq DOMAIN TypenamesAtArg(f, k)
               /\ RecordLookups(Unwrap(f.res)) \subseteq DOMAIN typenames'
               /\ \A k \in 1..Len(args) :
                     RecordLookups(Unwrap(args[k].type)) \subseteq DOMAIN typenames'
      ]_vars

(***************************************************************************)
(* C5 as stated: a typedef of a pointer to a function prototype is turned  *)
(* into a callback descriptor, and its name is added to the callback list, *)
(* so the library class has a field for it.                                *)
(***************************************************************************)
IsFunctionPointerTypedef(e) ==
    /\ get_kind(e) = "TypedefDecl"
    /\ LET t == get_canonical_type(e.underlying)
       IN  get_kind(t) = "Pointer" /\ get_kind(t.pointee) = "FunctionPrototype"

C5_TypedefCallbackRegistered ==
    pc = "done" =>
        \A k \in 1..Len(root) :
            (/\ IsFunctionPointerTypedef(root[k])
             /\ Regex_is_match(options.names_match, Unwrap(get_name(root[k]))))
            => \E c \in 1..Len(callbacks) :
                  callbacks[c][1] \in {Unwrap(get_name(root[k])),
                                       make_name(options, Unwrap(get_name(root[k])))}

(***************************************************************************)
(* C6: the step of either pass over a top-level declaration that has no    *)
(* name, or whose name does not match the pattern, leaves exported,        *)
(* typenames, the call list, the callback list and the chunks unchanged.   *)
(***************************************************************************)
OutOfScope(e) ==
    IsNone(get_name(e)) \/ ~Regex_is_match(options.names_match, Unwrap(get_name(e)))

C6_OutOfScopeSkipped ==
    [][ ((InLoop("pass1") \/ InLoop("pass2")) /\ OutOfScope(root[i])) =>
           UNCHANGED <<exported, typenames, calls, callbacks, units, output>>
      ]_vars

C6_Witness ==
    /\ pc = "done"
    /\ \E k \in 1..Len(root) : IsNone(get_name(root[k]))
    /\ \E k \in 1..Len(root) :
          /\ get_kind(root[k]) = "FunctionDecl"
          /\ Named(root[k])
          /\ OutOfScope(root[k])
          /\ Unwrap(get_name(root[k])) \notin exported
    /\ calls = << >>
    /\ exported # {}

(***************************************************************************)
(* C7 as stated: in every reachable state every name in exported is the    *)
(* name of a declaration whose defining block has been appended to the     *)
(* output.                                                                 *)
(***************************************************************************)
C7_ExportedOnlyWithEmission ==
    \A name \in exported :
        \E d \in AllDecls :
            /\ get_name(d) = Some(name)
            /\ Translatable(d)
            /\ Count(units, DefiningBlock(d)) >= 1

(***************************************************************************)
(* C8: within one function the unnamed function-pointer arguments yield    *)
(* the callbacks {function}_cb0, {function}_cb1, ... in order; named       *)
(* function-pointer arguments keep their own name and, like the other      *)
(* arguments, consume no number; the numbering starts at 0 in every        *)
(* function.                                                               *)
(***************************************************************************)
\* The indexes of the arguments that are pointers to functions, in order.
RECURSIVE CallbackArgs(_, _)
CallbackArgs(args, k) ==
    IF k > Len(args) THEN <<>>
    ELSE (IF is_callback_arg(args[k]) THEN <<k>> ELSE <<>>) \o CallbackArgs(args, k + 1)

UnnamedCallbacksBefore(args, k) ==
    Cardinality({m \in 1..(k - 1) : is_callback_arg(args[m]) /\ IsNone(get_name(args[m]))})

ExpectedCallbackName(f, k) ==
    LET args == Unwrap(f.args)
    IN  make_name(options, Unwrap(get_name(f))) \o "_"
        \o (IF IsSome(get_name(args[k])) THEN Unwrap(get_name(args[k]))
            ELSE "cb" \o ToString(UnnamedCallbacksBefore(args, k)))

C8_CallbackNumbering ==
    [][ FunctionParsed =>
           LET cbs == CallbackArgs(Unwrap(root[i].args), 1)
           IN  /\ Len(callbacks') = Len(callbacks) + Len(cbs)
               /\ IsPrefix(callbacks, callbacks')
               /\ \A k \in 1..Len(cbs) :
                     callbacks'[Len(callbacks) + k][1] = ExpectedCallbackName(root[i], cbs[k])
      ]_vars

C8_Witness ==
    /\ pc = "pass2"
    /\ options = OptPrefix
    /\ Len(root) = 4
    /\ Len(Unwrap(root[3].args)) = 3
    /\ [k \in 1..Len(callbacks) |-> callbacks[k][1]]
          = <<"reg_cb0", "reg_on_ev", "reg_cb1", "last_cb0">>

(***************************************************************************)
(* C9: the library class is emitted once, as the last chunk, after every   *)
(* declaration; it holds one field per callback and then one field per     *)
(* call, one constructor parameter per callback and one symbol lookup per  *)
(* call, each group in the order of its list.                              *)
(***************************************************************************)
IsClassBlock(c) == c.t = "Block" /\ c.src = "class " \o options.class_name

IsField(c) == c.t = "Line" /\ StartsWith(c.src, "final ")
IsParam(c) == c.t = "Line" /\ StartsWith(c.src, "  , ")
IsLookup(c) == c.t = "Line" /\ Contains(c.src, " = dylib.lookup<")

C9_LibraryClass ==
    /\ pc \notin {"done", "written"} => \A k \in 1..Len(units) : ~IsClassBlock(units[k])
    /\ pc \in {"done", "written"} =>
          /\ Cardinality({k \in 1..Len(units) : IsClassBlock(units[k])}) = 1
          /\ IsClassBlock(Last(units))
          /\ LET body == Last(units).units
                 fields == SelectSeq(body, IsField)
                 params == SelectSeq(body, IsParam)
                 lookups == SelectSeq(body, IsLookup)
                 ncb == Len(callbacks)
             IN  /\ Len(fields) = ncb + Len(calls)
                 /\ \A k \in 1..ncb :
                       fields[k].src = "final Pointer<NativeFunction<" \o callbacks[k][2].cffi
                                       \o ">> _" \o callbacks[k][1] \o ";"
                 /\ \A k \in 1..Len(calls) :
                       fields[ncb + k].src = "final " \o calls[k][2].dart
                                             \o " _" \o calls[k][1] \o ";"
                 /\ Len(params) = ncb
                 /\ \A k \in 1..ncb : params[k].src = "  , this._" \o callbacks[k][1]
                 /\ Len(lookups) = Len(calls)
                 /\ \A k \in 1..Len(calls) :
                       /\ Contains(lookups[k].src, " _" \o calls[k][1] \o " = dylib.lookup<")
                       /\ Contains(lookups[k].src, "('" \o Unwrap(calls[k][2].name) \o "')")

C9_Witness ==
    /\ pc = "done"
    /\ Len(callbacks) >= 2
    /\ Len(calls) >= 2
    /\ IsClassBlock(Last(units))

(***************************************************************************)
(* C10 as stated: in the logical representation every integer kind maps to *)
(* one and the same host integer type, and single-precision and            *)
(* double-precision float map to two different type names.                 *)
(* The header is struct lib_P { k1 a; k2 b; } with a function over it; the *)
(* logical names are read from the field lines of the struct's block.      *)
(***************************************************************************)
IntegerKinds == {"Bool", "SChar", "CharS", "UChar", "Short", "UShort", "Int", "UInt",
                 "Long", "ULong"}
FloatKinds == {"Float", "Double"}

IsPrimHeader ==
    /\ Len(root) = 2
    /\ root[1].kind = "StructDecl"
    /\ root[1].name = Some("lib_P")

KindA == Unwrap(root[1].children[1].type).kind
KindB == Unwrap(root[1].children[2].type).kind

\* "{ffi_type} {native_type} {name};" without the annotation before and the
\* field's name after the logical type.
LogicalOf(line, kind, field) ==
    LET ann == IF IsSome(cffi_type(kind)) THEN "@" \o Unwrap(cffi_type(kind)) \o "()" ELSE ""
    IN  SubSeq(line.src, Len(ann) + 2, Len(line.src) - Len(field) - 2)

PrimBlock == CHOOSE c \in {units[k] : k \in 1..Len(units)} :
                 c.t = "Block" /\ c.src = "class " \o make_name(options, "lib_P") \o " extends Struct"

LogicalA == LogicalOf(PrimBlock.units[1], KindA, "a")
LogicalB == LogicalOf(PrimBlock.units[2], KindB, "b")

PrimTranslated == IsPrimHeader /\ pc = "done" /\ "lib_P" \in DOMAIN typenames

Unlines(lines) == Join(lines, "\n") \o (IF Len(lines) = 0 THEN "" ELSE "\n")

\* The lines of a comment chunk: the marker with the first line, the later
\* lines behind one space, and the closing marker.
CommentRendered(src, ind) ==
    LET ls == Lines(src)
    IN  IF Len(ls) = 0 THEN <<ind \o "/*" \o ind \o " */">>
        ELSE <<ind \o "/*" \o ls[1]>>
             \o [k \in 1..(Len(ls) - 1) |-> ind \o " " \o ls[k + 1]]
             \o <<ind \o " */">>

RECURSIVE RenderedLines(_, _)
RenderedLines(chunks, depth) ==
    IF Len(chunks) = 0 THEN << >>
    ELSE LET c == Head(chunks)
             ind == Spaces(4 * depth)
         IN  (CASE c.t = "Line" -> <<ind \o c.src>>
                [] c.t = "Comment" -> CommentRendered(c.src, ind)
                [] c.t = "Block" /\ c.units = << >> -> <<ind \o c.src \o " {}">>
                [] c.t = "Block" /\ c.units # << >> ->
                      <<ind \o c.src \o " {">>
                      \o RenderedLines(c.units, depth + 1)
                      \o <<ind \o "}">>)
             \o RenderedLines(Tail(chunks), depth)

OpensBlock(line) == EndsWith(line, " {")
ClosesBlock(line) == Trim(line) = "}"

C11_BlockRendering ==
    pc = "formatted" =>
        LET lines == Lines(output)
        IN  /\ output = Unlines(RenderedLines(units, 0))
            /\ \A k \in 1..(Len(lines) - 1) :
                  ~(OpensBlock(lines[k]) /\ ClosesBlock(lines[k + 1]))

\* An empty block two levels deep, inside blocks that have children.
C11_Witness ==
    /\ pc = "formatted"
    /\ units = <<Block("class A",
                       <<Block("if (x)", <<Block("if (x)", << >>), Line("x;")>>)>>)>>
    /\ output = "class A {\n    if (x) {\n        if (x) {}\n        x;\n    }\n}\n"

(***************************************************************************)
(* C12 as stated: for a comment of several lines, once the markers are     *)
(* stripped and the text trimmed, the first line is left unchanged and     *)
(* every later line has exactly m leading characters removed, where m is   *)
(* the least number of leading whitespace characters over the lines after  *)
(* the first; so the later lines keep their relative indentation and at    *)
(* least one of them starts with a character that is not whitespace, or is *)
(* empty.                                                                  *)
(***************************************************************************)
MinIndent(p) ==
    CHOOSE m \in {p.conts[k].n : k \in 1..Len(p.conts)} :
        \A k \in 1..Len(p.conts) : m <= p.conts[k].n

Unrolled(p) ==
    "a\n" \o Join([k \in 1..Len(p.conts) |->
                      Repeat(p.conts[k].ch, p.conts[k].n - MinIndent(p)) \o p.conts[k].body],
                  "\n")

StartsFlush(line) == line = "" \/ ~IsWhitespace(CharAt(line, 1))

IsCommentHeader ==
    /\ Len(root) = 1
    /\ get_kind(root[1]) = "EnumDecl"
    /\ get_name(root[1]) = Some("lib_K")
    /\ IsSome(get_comment(root[1]))

\* The second loop is past the enum, or was ended by it.
CommentProcessed ==
    IsCommentHeader /\ (pc \in {"done", "written", "panicked"} \/ (pc = "pass2" /\ i > 1))

UnrolledAsStated(p) ==
    \E k \in 1..Len(units) :
        /\ units[k] = Comment(Unrolled(p))
        /\ \E n \in 2..Len(Lines(units[k].src)) : StartsFlush(Lines(units[k].src)[n])

C12_AsStated ==
    CommentProcessed =>
        \A p \in CommentParts : root[1] = CommentEnum(p) => UnrolledAsStated(p)

\* C12 with every indentation character one byte long.
SingleByte(p) == \A k \in 1..Len(p.conts) : p.conts[k].n > 0 => p.conts[k].ch # U3000

C12_SingleByteIndentation ==
    CommentProcessed =>
        \A p \in {q \in CommentParts : SingleByte(q)} :
            root[1] = CommentEnum(p) => UnrolledAsStated(p)

(***************************************************************************)
(* C13: when a matching function declaration has no result type or no      *)
(* argument list, or a struct field that is being translated has no name   *)
(* or no type, the run aborts at that point: the step ends in the aborted  *)
(* state with the position unchanged, no step follows it (no later         *)
(* declaration is processed), the library class is not emitted, and        *)
(* nothing, the banner included, has been written to the output.           *)
(***************************************************************************)
IncompleteFunction(f) == IsNone(f.res) \/ IsNone(f.args)

IncompleteField(e) ==
    get_kind(e) = "FieldDecl" /\ (IsNone(get_name(e)) \/ IsNone(e.type))

\* The members translated as fields of a struct or of a typedef of a struct.
FieldsOf(d) ==
    CASE get_kind(d) = "StructDecl" -> d.children
      [] get_kind(d) = "TypedefDecl"
            /\ get_kind(get_canonical_type(d.underlying)) = "Record" ->
            get_canonical_type(d.underlying).decl.children
      [] OTHER -> << >>

\* The declarations the step of a function translates: named, not yet
\* exported, behind the result type or an argument that is not a callback.
TranslatedBy(f) ==
    LET args == Unwrap(f.args)
        types == {Unwrap(f.res)}
                 \cup {Unwrap(args[k].type) :
                          k \in {m \in 1..Len(args) : ~is_callback_arg(args[m])}}
    IN  {d \in UNION {TypeNamed(Pointee(t)) : t \in types} :
            Named(d) /\ Unwrap(get_name(d)) \notin exported}

TranslatesIncompleteField(f) ==
    /\ ~IncompleteFunction(f)
    /\ \E d \in TranslatedBy(f) :
          \E k \in 1..Len(FieldsOf(d)) : IncompleteField(FieldsOf(d)[k])

C13_AbortsOnIncomplete ==
    [][ /\ (/\ InLoop("pass1")
            /\ FunctionInScope(root[i])
            /\ IncompleteFunction(root[i]) \/ TranslatesIncompleteField(root[i]))
           => pc' = "panicked"
        /\ pc # "panicked"
        /\ pc' = "panicked" =>
              /\ i' = i
              /\ output' = ""
              /\ \A k \in 1..Len(units') : ~IsClassBlock(units'[k])
      ]_vars

\* The run aborted at a function that takes a struct with an unnamed
\* field, with a declaration after it.
C13_Witness ==
    /\ pc = "panicked"
    /\ i < Len(root)
    /\ root[i] = fTake("lib_", RecordT(sPart("lib_", UnnamedField)))
    /\ output = ""

(***************************************************************************)
(* C15 as stated: after any run the library class declares no two fields   *)
(* with the same name: the names in the call list are pairwise distinct    *)
(* and the names in the callback list are pairwise distinct, also when the *)
(* header declares a function more than once, when two functions get the   *)
(* same name in the output, or when a function has a callback argument     *)
(* named cb0 and an unnamed callback argument.                             *)
(***************************************************************************)
DistinctNames(list) ==
    \A j, k \in 1..Len(list) : j # k => list[j][1] # list[k][1]

C15_DistinctFieldNames ==
    pc \in {"done", "written"} =>
        /\ DistinctNames(calls)
        /\ DistinctNames(callbacks)

====
